---- MODULE Spec2Model ----
(***************************************************************************)
(* Model of pymor.algorithms.lyapunov: the solve_lyap facade, the low-rank *)
(* ADI driver lradi and its projection shift generators.                   *)
(*                                                                         *)
(* Operators and vector arrays are abstract.  A vector space is identified *)
(* with its dimension, a complex number is a record [re, im], the spectral *)
(* norm of a Gramian is a point of an integer grid, and the eigenvalues of *)
(* a real projected pencil are any sequence of real values and adjacent    *)
(* conjugate pairs (member with positive imaginary part first, the order   *)
(* in which LAPACK returns them).                                          *)
(*                                                                         *)
(* A second part models reduce of the second-order balanced truncation     *)
(* reductors of pymor.reductors.sobt: a Gramian factor is its number of    *)
(* vectors, a projection matrix its number of vectors and its form.        *)
(*                                                                         *)
(* A third part models solve_lyap of pymor.bindings.pymess: the options    *)
(* dictionary and the pymess.Options object the caller passes are objects  *)
(* on a heap, so that copies and aliases of them can be told apart.        *)
(***************************************************************************)
EXTENDS Integers, Sequences, FiniteSets, TLC

\* ------------------------------------------------------------------ bounds
MaxDim == 2           \* dimensions of the vector spaces: 1..MaxDim
MaxMaxiter == 3       \* options['maxiter'] ranges over 0..MaxMaxiter
MaxRes == 1           \* residual norms range over 0..MaxRes
MaxInitMaxiter == 2   \* shift_options['init_maxiter'] ranges over 0..MaxInitMaxiter
MaxZColumns == 2      \* shift_options['z_columns'] ranges over 1..MaxZColumns
MaxEig == 2           \* largest projected pencil whose spectrum is enumerated
MaxOrder == 3         \* order d.n of the system and r range up to MaxOrder
MaxGramLen == 2       \* Gramian factors hold 1..MaxGramLen vectors

\* --------------------------------------------------------------- constants
None == "None"

NoneValue == [kind |-> "None"]

NotAnOperator == [kind |-> "object"]

Min(a, b) == IF a < b THEN a ELSE b

Spaces == 1..MaxDim

\* an |Operator| with its linear flag and its source and range spaces
Operators ==
    [kind : {"operator"}, linear : BOOLEAN, source : Spaces, range : Spaces]

Objects == Operators \cup {NotAnOperator}

isinstance(X) == X.kind = "operator"

\* --------------------------------------------------------- complex numbers
Cx(x, y) == [re |-> x, im |-> y]

Conj(z) == [re |-> z.re, im |-> 0 - z.im]

\* real eigenvalues and first members of conjugate pairs a pencil can have
RealEigs == {Cx(x, 0) : x \in -1..1}

PairEigs == {Cx(x, 1) : x \in -1..0}

\* spla.eigvals of a real n x n pencil: n values, conjugate pairs adjacent
RECURSIVE eigvals(_)
eigvals(n) ==
    IF n = 0 THEN {<<>>}
    ELSE {<<x>> \o s : x \in RealEigs, s \in eigvals(n - 1)}
         \cup (IF n >= 2
               THEN {<<p, Conj(p)>> \o s : p \in PairEigs, s \in eigvals(n - 2)}
               ELSE {})

\* size of the spectra enumerated for a projection on n vectors
EigDim(n) == Min(n, MaxEig)

\* variant: eigenvalues on the imaginary axis are kept
RECURSIVE StableOnly_nonpositive(_)
StableOnly_nonpositive(s) ==
    IF s = <<>> THEN <<>>
    ELSE IF Head(s).re <= 0
         THEN <<Head(s)>> \o StableOnly_nonpositive(Tail(s))
         ELSE StableOnly_nonpositive(Tail(s))

\* shifts[np.real(shifts) < 0]
RECURSIVE StableOnly(_)
StableOnly(s) ==
    IF s = <<>> THEN <<>>
    ELSE IF Head(s).re < 0 THEN <<Head(s)>> \o StableOnly(Tail(s))
         ELSE StableOnly(Tail(s))

\* ----------------------------------------------------------------- options
\* the relative tolerances: 0 and 1/2, as fractions
Tols == {[num |-> 0, den |-> 1], [num |-> 1, den |-> 2]}

ShiftOptions ==
    [type : {"projection_shifts", "unknown"},
     z_columns : 1..MaxZColumns,
     init_maxiter : 0..MaxInitMaxiter,
     implicit_subspace : BOOLEAN]

\* the option dictionaries _parse_options can hand to solve_lyap
SolverOptions ==
    [type : {"lradi", "other"},
     tol : Tols,
     maxiter : 0..MaxMaxiter,
     shifts : {"projection_shifts", "unknown"},
     shift_options : [projection_shifts : ShiftOptions]]

NoOptions == [type |-> "None"]

\* ------------------------------------------------------------------- state
VARIABLES
    args,         \* the parameters A, E, B, trans of solve_lyap / lradi
    options,      \* the parsed solver options, NoOptions before parsing
    pc,           \* position in solve_lyap / lradi
    exception,    \* the exception that ended the call, None if none
    Z,            \* solution factor: its sequence of columns
    W,            \* residual factor: its number of vectors
    j,            \* index into the shift set
    shifts,       \* the shift set held by lradi
    size_shift,   \* shifts.size as cached by lradi
    res,          \* spectral norm of gramian(W)
    init_res,     \* residual norm before the first step
    Btol,         \* absolute tolerance, as a fraction
    init_log,     \* per attempt of projection_shifts_init: the array projected on
    upd,          \* the last call of projection_shifts
    calls,        \* number of calls made so far, per method, and of failed solves
    log,          \* warnings emitted
    result,       \* the array returned by lradi, the system returned by reduce
    self,         \* the reductor whose reduce is called: its attributes
    heap          \* the objects the caller of the pymess solve_lyap holds

vars == <<args, options, pc, exception, Z, W, j, shifts, size_shift, res,
          init_res, Btol, init_log, upd, calls, log, result, self,
          heap>>

Methods == {"empty", "as_range_array", "as_source_array",
            "init_shifts", "iteration_shifts", "gram_schmidt", "eigvals",
            "apply", "apply_adjoint", "apply_inverse", "apply_inverse_adjoint",
            "apply2", "inversion_errors"}

NoCalls == [m \in Methods |-> 0]

\* calls c with one more call of each method of ms
Called(c, ms) == [m \in Methods |-> IF m \in ms THEN c[m] + 1 ELSE c[m]]

NoUpdate == [called |-> FALSE]

\* no reductor takes part in a call of solve_lyap or lradi
NoReductor == [cls |-> "None"]

\* no object is shared with a caller of the pymess bindings
NoHeap == [dict |-> NoneValue]

\* the state in which neither solve_lyap nor lradi has done anything
Untouched ==
    /\ exception = None
    /\ Z = <<>>
    /\ W = 0
    /\ j = 0
    /\ shifts = <<>>
    /\ size_shift = 0
    /\ res = 0
    /\ init_res = 0
    /\ Btol = [num |-> 0, den |-> 1]
    /\ init_log = <<>>
    /\ upd = NoUpdate
    /\ calls = NoCalls
    /\ log = {}
    /\ result = <<>>

Arguments ==
    [A : Objects, E : Objects \cup {NoneValue}, B : Objects, trans : BOOLEAN]

\* solve_lyap is called
InitSolveLyap ==
    /\ args \in Arguments
    /\ options = NoOptions
    /\ pc = "solve_lyap"
    /\ Untouched
    /\ self = NoReductor
    /\ heap = NoHeap

\* an exception leaves the call
Raise(e) ==
    /\ pc' = "raised"
    /\ exception' = e

\* --------------------------------------------------------------- solve_lyap
\* variant: E is only required to be square, not to live on A's space
check_args_ok_anyE(A, E, B, trans) ==
    /\ isinstance(A) /\ A.linear
    /\ A.source = A.range
    /\ isinstance(B) /\ B.linear
    /\ \/ (~trans /\ B.range = A.source)
       \/ (trans /\ B.source = A.source)
    /\ \/ E = NoneValue
       \/ (isinstance(E) /\ E.linear /\ E.source = E.range)

\* the asserts of _solve_lyap_check_args, in order
check_args_ok(A, E, B, trans) ==
    /\ isinstance(A) /\ A.linear
    /\ A.source = A.range
    /\ isinstance(B) /\ B.linear
    /\ \/ (~trans /\ B.range = A.source)
       \/ (trans /\ B.source = A.source)
    /\ \/ E = NoneValue
       \/ (isinstance(E) /\ E.linear /\ E.source = E.range
           /\ E.range = A.source)

\* solve_lyap, line 58
SolveLyapCheckArgs ==
    /\ pc = "solve_lyap"
    /\ IF check_args_ok(args.A, args.E, args.B, args.trans)
       THEN pc' = "parse_options" /\ UNCHANGED exception
       ELSE Raise("AssertionError")
    /\ UNCHANGED <<args, options, Z, W, j, shifts, size_shift, res, init_res,
                   Btol, init_log, upd, calls, log, result>>
    /\ UNCHANGED <<self, heap>>

\* solve_lyap, lines 59-63: the options are parsed and the solver selected
SolveLyapDispatch ==
    /\ pc = "parse_options"
    /\ \E o \in SolverOptions :
         /\ options' = o
         /\ IF o.type = "lradi"
            THEN pc' = "lradi" /\ UNCHANGED exception
            ELSE Raise("ValueError")
    /\ UNCHANGED <<args, Z, W, j, shifts, size_shift, res, init_res,
                   Btol, init_log, upd, calls, log, result>>
    /\ UNCHANGED <<self, heap>>

\* -------------------------------------------------------------------- lradi
\* len(W0): B.as_range_array() has B.source.dim vectors, B.as_source_array()
\* has B.range.dim vectors
W0(B, trans) == IF ~trans THEN B.source ELSE B.range

\* variant: the else branch of the strategy selection is missing
shift_strategy_error_noelse(o) ==
    IF o.shifts \notin DOMAIN o.shift_options THEN "KeyError" ELSE None

\* lradi, lines 115-120: the exception of the strategy selection, None if none
shift_strategy_error(o) ==
    IF o.shifts \notin DOMAIN o.shift_options THEN "KeyError"
    ELSE IF o.shift_options[o.shifts].type = "projection_shifts" THEN None
    ELSE "ValueError"

\* the capacity reserved for Z at its creation, lines 126 and 129
Z_reserve(B, trans, maxiter) ==
    IF ~trans THEN B.source * maxiter ELSE B.range * maxiter

\* IdentityOperator(space)
IdentityOperator(space) ==
    [kind |-> "operator", linear |-> TRUE, source |-> space, range |-> space]

\* lradi, lines 113-132: strategy selection, E defaulted to the identity,
\* Z and W created, j = 0
LradiSetup ==
    /\ pc = "lradi"
    /\ IF shift_strategy_error(options) # None
       THEN /\ Raise(shift_strategy_error(options))
            /\ UNCHANGED <<args, Z, W, j, calls>>
       ELSE /\ args' = IF args.E = NoneValue
                       THEN [args EXCEPT !.E = IdentityOperator(args.A.source)]
                       ELSE args
            /\ Z' = <<>>
            /\ W' = W0(args.B, args.trans)
            /\ calls' = Called(calls, {"empty", IF ~args.trans
                                                THEN "as_range_array"
                                                ELSE "as_source_array"})
            /\ j' = 0
            /\ pc' = "init_shifts"
            /\ UNCHANGED exception
    /\ UNCHANGED <<options, shifts, size_shift, res, init_res,
                   Btol, init_log, upd, log, result>>
    /\ UNCHANGED <<self, heap>>

shift_options == options.shift_options[options.shifts]

\* --------------------------------------------------- projection_shifts_init
\* the array an attempt projects on: W first, a random array of len(W)
\* vectors after a failed attempt
\* variant: every attempt projects on W
init_basis_same(i) == "W"

\* the array pass i of the loop projects on, lines 199 and 207
init_basis(i) == IF i = 0 THEN "W" ELSE "random"


\* variant: one pass too many
in_range_inclusive(i, init_maxiter) == i <= init_maxiter

\* for i in range(init_maxiter): another pass is made
in_range(i, init_maxiter) == i < init_maxiter

\* projection_shifts_init, lines 198-209: one pass of the attempt loop
InitShiftsAttempt ==
    /\ pc = "init_shifts"
    /\ in_range(Len(init_log), shift_options.init_maxiter)
    /\ \E spectrum \in eigvals(EigDim(W)) :
         LET found == StableOnly(spectrum) IN
         /\ init_log' = Append(init_log, init_basis(Len(init_log)))
         /\ calls' = Called(calls, {"gram_schmidt", "apply2", "eigvals"}
                            \cup (IF init_log = <<>> THEN {"init_shifts"}
                                                    ELSE {}))
         /\ IF found = <<>>
            THEN UNCHANGED <<pc, shifts>>
            ELSE pc' = "init_res" /\ shifts' = found
    /\ UNCHANGED <<args, options, exception, Z, W, j, size_shift, res,
                   init_res, Btol, upd, log, result>>
    /\ UNCHANGED <<self, heap>>

\* projection_shifts_init, line 210: the attempts are used up
InitShiftsExhausted ==
    /\ pc = "init_shifts"
    /\ ~in_range(Len(init_log), shift_options.init_maxiter)
    /\ Raise("RuntimeError")
    /\ calls' = Called(calls, IF init_log = <<>> THEN {"init_shifts"} ELSE {})
    /\ UNCHANGED <<args, options, Z, W, j, shifts, size_shift, res,
                   init_res, Btol, init_log, upd, log, result>>
    /\ UNCHANGED <<self, heap>>

\* Btol = res * options['tol']
initial_Btol(r, tol) == [num |-> r * tol.num, den |-> tol.den]

\* lradi, lines 134-137: the initial residual and the absolute tolerance
LradiInitialResidual ==
    /\ pc = "init_res"
    /\ size_shift' = Len(shifts)
    /\ \E norm \in 0..MaxRes :
         /\ res' = norm
         /\ init_res' = norm
         /\ Btol' = initial_Btol(norm, options.tol)
    /\ pc' = "while"
    /\ UNCHANGED <<args, options, exception, Z, W, j, shifts, init_log, upd,
                   calls, log, result>>
    /\ UNCHANGED <<self, heap>>

\* -------------------------------------------------------- projection_shifts
\* prev_shifts[k] with Python's indexing; the caller checks InRange first
InRange(s, k) == 0 - Len(s) <= k /\ k < Len(s)

PyAt(s, k) == IF k < 0 THEN s[Len(s) + k + 1] ELSE s[k + 1]

\* variant: u is not increased at the second member of a pair
ps_window_noadjust(prev_shifts, z_columns) ==
    LET L == Len(prev_shifts)
        u0 == IF L - z_columns < 0 THEN L ELSE z_columns
        d0 == IF L - z_columns < 0 THEN 0 ELSE L - z_columns
    IN  IF ~InRange(prev_shifts, 0 - u0)
        THEN [exc |-> "IndexError", u |-> u0, d |-> d0]
        ELSE [exc |-> None, u |-> u0, d |-> d0]

\* projection_shifts, lines 239-247: the window [u, d] of trailing shifts
ps_window(prev_shifts, z_columns) ==
    LET L == Len(prev_shifts)
        u0 == IF L - z_columns < 0 THEN L ELSE z_columns
        d0 == IF L - z_columns < 0 THEN 0 ELSE L - z_columns
    IN  IF ~InRange(prev_shifts, 0 - u0)
        THEN [exc |-> "IndexError", u |-> u0, d |-> d0]
        ELSE [exc |-> None,
              u |-> IF PyAt(prev_shifts, 0 - u0).im < 0 THEN u0 + 1 ELSE u0,
              d |-> d0]

\* projection_shifts, lines 259-281: the loop filling B and G, from index i;
\* visited collects the indices d + i read
RECURSIVE ps_fill(_, _, _, _, _)
ps_fill(prev_shifts, d, u, i, visited) ==
    IF ~(i < u) THEN [exc |-> None, visited |-> visited]
    ELSE IF ~InRange(prev_shifts, d + i)
    THEN [exc |-> "IndexError", visited |-> visited]
    ELSE IF PyAt(prev_shifts, d + i).im = 0
    THEN ps_fill(prev_shifts, d, u, i + 1, Append(visited, d + i))
    ELSE IF i + 2 > u
    THEN [exc |-> "ValueError", visited |-> Append(visited, d + i)]
    ELSE ps_fill(prev_shifts, d, u, i + 2, Append(visited, d + i))

\* len(Z[-u * r:])
len_Vu(lenZ, u, r) == IF u * r = 0 THEN lenZ ELSE Min(u * r, lenZ)

\* projection_shifts, lines 239-296: everything before the eigenvalue
\* problem; n is the size of the projected pencil
ps_project(lenZ, r, prev_shifts, so) ==
    LET win == ps_window(prev_shifts, so.z_columns)
        n == len_Vu(lenZ, win.u, r)
        fill == ps_fill(prev_shifts, win.d, win.u, 0, <<>>)
    IN  IF win.exc # None
        THEN [exc |-> win.exc, u |-> win.u, d |-> win.d, n |-> 0,
              visited |-> <<>>]
        ELSE IF ~so.implicit_subspace
        THEN [exc |-> None, u |-> win.u, d |-> win.d, n |-> n,
              visited |-> <<>>]
        ELSE IF fill.exc # None
        THEN [exc |-> fill.exc, u |-> win.u, d |-> win.d, n |-> n,
              visited |-> fill.visited]
        ELSE [exc |-> IF n # win.u * r THEN "ValueError" ELSE None,
              u |-> win.u, d |-> win.d, n |-> n, visited |-> fill.visited]

\* the methods projection_shifts calls on the operators
ps_methods(so) ==
    IF so.implicit_subspace THEN {"apply"} ELSE {"gram_schmidt", "apply2"}

\* variant: without stable eigenvalue the previous shifts are returned as is
ps_return_same(prev_shifts, spectrum) ==
    prev_shifts \o StableOnly(spectrum)

\* variant: the fallback repeats the last previous shift only
ps_return_last(prev_shifts, spectrum) ==
    LET found == StableOnly(spectrum) IN
    IF found = <<>> THEN Append(prev_shifts, prev_shifts[Len(prev_shifts)])
    ELSE prev_shifts \o found

\* projection_shifts, lines 298-303: the returned shift sequence
ps_return(prev_shifts, spectrum) ==
    LET found == StableOnly(spectrum) IN
    IF found = <<>> THEN prev_shifts \o prev_shifts
    ELSE prev_shifts \o found

\* ---------------------------------------------------------- the ADI loop
\* res > Btol
above_tol(r, bt) == r * bt.den > bt.num

\* variant: the budget test is off by one
loop_cond_early == above_tol(res, Btol) /\ j + 1 < options.maxiter

\* variant: one pass more than the budget
loop_cond_late == above_tol(res, Btol) /\ j <= options.maxiter

\* the condition of the while loop, line 139
loop_cond == above_tol(res, Btol) /\ j < options.maxiter

inverse_method == IF ~args.trans THEN "apply_inverse"
                  ELSE "apply_inverse_adjoint"

apply_method == IF ~args.trans THEN "apply" ELSE "apply_adjoint"

\* the columns one Z.append adds for shift index k
block(k, part, r) == [c \in 1..r |-> [shift |-> k, part |-> part, col |-> c]]

\* lines 140-162: the columns appended to Z and the advance of j
step_columns(sigma, k, r) ==
    IF sigma.im = 0 THEN block(k, "real", r)
    ELSE block(k, "re", r) \o block(k, "im", r)

\* variant: a pair is counted as one consumed shift
step_advance_one(sigma) == 1

step_advance(sigma) == IF sigma.im = 0 THEN 1 ELSE 2

\* variant: the updater is called one shift too late
need_shifts_late(j1, size) == j1 > size

\* line 163: the shift set is used up
need_shifts(j1, size) == j1 >= size

\* lradi, lines 139-167: one pass of the loop whose solve succeeds
LradiStep ==
    /\ pc = "while"
    /\ loop_cond
    /\ IF ~InRange(shifts, j)
       THEN /\ Raise("IndexError")
            /\ UNCHANGED <<Z, j, shifts, size_shift, res, upd, calls>>
       ELSE
         LET sigma == PyAt(shifts, j)
             Z1 == Z \o step_columns(sigma, j, W)
             j1 == j + step_advance(sigma)
             c1 == Called(calls, {inverse_method, apply_method})
         IN
         /\ Z' = Z1
         /\ j' = j1
         /\ IF need_shifts(j1, size_shift)
            THEN LET p == ps_project(Len(Z1), W, shifts, shift_options)
                     c2 == Called(c1, {"iteration_shifts"})
                 IN
                 IF p.exc # None
                 THEN /\ Raise(p.exc)
                      /\ upd' = [called |-> TRUE, prev_shifts |-> shifts,
                                 j |-> j1, lenZ |-> Len(Z1), project |-> p,
                                 found |-> <<>>]
                      /\ calls' = c2
                      /\ UNCHANGED <<shifts, size_shift, res>>
                 ELSE \E spectrum \in eigvals(EigDim(p.n)) :
                      /\ shifts' = ps_return(shifts, spectrum)
                      /\ size_shift' = Len(shifts')
                      /\ upd' = [called |-> TRUE, prev_shifts |-> shifts,
                                 j |-> j1, lenZ |-> Len(Z1), project |-> p,
                                 found |-> StableOnly(spectrum)]
                      /\ calls' = Called(c2, ps_methods(shift_options)
                                             \cup {"eigvals"})
                      /\ res' \in 0..MaxRes
                      /\ UNCHANGED <<pc, exception>>
            ELSE /\ calls' = c1
                 /\ res' \in 0..MaxRes
                 /\ UNCHANGED <<pc, exception, shifts, size_shift, upd>>
    /\ UNCHANGED <<args, options, W, init_res, Btol, init_log, log, result>>
    /\ UNCHANGED <<self, heap>>

\* variant: the failure is caught and the loop tries again
solve_failure_retry == UNCHANGED <<pc, exception>>

\* an exception of apply_inverse / apply_inverse_adjoint is not caught
solve_failure == Raise("InversionError")

\* lradi, lines 143/146/155/158: the solve with the shifted operator fails
LradiSolveFails ==
    /\ pc = "while"
    /\ loop_cond
    /\ InRange(shifts, j)
    /\ calls' = Called(calls, {inverse_method, "inversion_errors"})
    /\ solve_failure
    /\ UNCHANGED <<args, options, Z, W, j, shifts, size_shift, res, init_res,
                   Btol, init_log, upd, log, result>>
    /\ UNCHANGED <<self, heap>>

\* variant: the warning is tied to the exhausted budget
warn_cond_budget == j >= options.maxiter

\* the condition of the warning, line 169
warn_cond == above_tol(res, Btol)

NotAchieved == "tolerance not achieved"

\* lradi, lines 169-173: the loop is left, Z is returned
LradiReturn ==
    /\ pc = "while"
    /\ ~loop_cond
    /\ log' = IF warn_cond THEN log \cup {NotAchieved} ELSE log
    /\ result' = Z
    /\ pc' = "returned"
    /\ UNCHANGED <<args, options, exception, Z, W, j, shifts, size_shift, res,
                   init_res, Btol, init_log, upd, calls>>
    /\ UNCHANGED <<self, heap>>

\* lradi is entered with arguments that pass _solve_lyap_check_args, A on
\* the largest space, and with parsed options of type 'lradi'
Init ==
    /\ args \in {a \in Arguments : /\ check_args_ok(a.A, a.E, a.B, a.trans)
                                  /\ a.A.source = MaxDim}
    /\ options \in {o \in SolverOptions : o.type = "lradi"}
    /\ pc = "lradi"
    /\ Untouched
    /\ self = NoReductor
    /\ heap = NoHeap

Next ==
    \/ LradiSetup
    \/ InitShiftsAttempt
    \/ InitShiftsExhausted
    \/ LradiInitialResidual
    \/ LradiStep
    \/ LradiSolveFails
    \/ LradiReturn

Spec == Init /\ [][Next]_vars

\* lradi runs on one thread and is never suspended: it keeps taking steps
SpecFair == Spec /\ WF_vars(Next)

\* solve_lyap up to the entry of lradi and its set-up
NextSolveLyap ==
    \/ SolveLyapCheckArgs
    \/ SolveLyapDispatch
    \/ LradiSetup

SpecSolveLyap == InitSolveLyap /\ [][NextSolveLyap]_vars

\* ------------------------------------------------- pymor.reductors.sobt
ReductorClasses == {"SOBTpReductor", "SOBTvReductor", "SOBTpvReductor",
                    "SOBTvpReductor", "SOBTfvReductor", "SOBTReductor"}

GramianKinds == {"pcf", "pof", "vcf", "vof"}

Projections == {"sr", "bfsr", "biorth"}

\* the Gramian factors reduce of class cls computes
gramians(cls) ==
    CASE cls = "SOBTpReductor" -> {"pcf", "pof", "vcf", "vof"}
      [] cls = "SOBTvReductor" -> {"vcf", "vof"}
      [] cls = "SOBTpvReductor" -> {"pcf", "vof"}
      [] cls = "SOBTvpReductor" -> {"pof", "vcf", "vof"}
      [] cls = "SOBTfvReductor" -> {"pcf", "pof"}
      [] cls = "SOBTReductor" -> {"pcf", "pof", "vcf", "vof"}

\* min(len(g) for g in gramians)
min_len(d, kinds) ==
    CHOOSE m \in {d.gramian[k] : k \in kinds} :
      \A k \in kinds : m <= d.gramian[k]

\* the condition under which reduce raises ValueError
r_too_large(r, d, kinds) == r > min_len(d, kinds)

\* the projection matrices of a reductor of class cls
matrices(cls) ==
    IF cls = "SOBTReductor" THEN {"V1", "W1", "V2", "W2"} ELSE {"V", "W"}

\* __init__: every projection matrix is None
init_reductor(cls, d) ==
    [cls |-> cls, d |-> d, biorthogonal_product |-> "unset",
     V |-> NoneValue, W |-> NoneValue,
     V1 |-> NoneValue, W1 |-> NoneValue, V2 |-> NoneValue, W2 |-> NoneValue]

\* a VectorArray of n vectors produced by lincomb, scal or an orthogonalization
Array(n, form) == [kind |-> "array", len |-> n, form |-> form]

\* the state of the lradi part, which reduce does not touch
lradi_vars == <<options, Z, W, j, shifts, size_shift, res, init_res, Btol,
                init_log, upd, calls, log>>

\* reduce(r, projection) is called on a freshly constructed reductor
InitSOBT ==
    /\ args \in [r : 0..MaxOrder, projection : Projections \cup {"other"}]
    /\ \E cls \in ReductorClasses, n \in 1..MaxOrder,
          g \in [GramianKinds -> 1..MaxGramLen] :
         self = init_reductor(cls, [n |-> n, gramian |-> g])
    /\ options = NoOptions
    /\ pc = "reduce"
    /\ Untouched
    /\ heap = NoHeap

\* the two assertions at the head of reduce
ReduceCheckArgs ==
    /\ pc = "reduce"
    /\ IF 0 < args.r /\ args.r < self.d.n /\ args.projection \in Projections
       THEN pc' = "gramians" /\ UNCHANGED exception
       ELSE Raise("AssertionError")
    /\ UNCHANGED <<args, result, self, heap, lradi_vars>>

\* the Gramian factors are computed and r is compared with their sizes
ReduceCheckGramians ==
    /\ pc = "gramians"
    /\ IF r_too_large(args.r, self.d, gramians(self.cls))
       THEN Raise("ValueError")
       ELSE pc' = "project" /\ UNCHANGED exception
    /\ UNCHANGED <<args, result, self, heap, lradi_vars>>

\* the projection matrices are assigned: r vectors each
ReduceProject ==
    /\ pc = "project"
    /\ self' = IF self.cls = "SOBTReductor"
               THEN [self EXCEPT !.V1 = Array(args.r, "lincomb"),
                                 !.W1 = Array(args.r, "lincomb"),
                                 !.V2 = Array(args.r, "lincomb"),
                                 !.W2 = Array(args.r, "lincomb")]
               ELSE IF self.cls = "SOBTfvReductor"
               THEN [self EXCEPT !.V = Array(args.r, "lincomb")]
               ELSE [self EXCEPT !.V = Array(args.r, "lincomb"),
                                 !.W = Array(args.r, "lincomb")]
    /\ pc' = "method"
    /\ UNCHANGED <<args, exception, result, heap, lradi_vars>>

\* the form the chosen projection method gives the matrices
method_form(projection) ==
    CASE projection = "sr" -> "scaled"
      [] projection = "bfsr" -> "orthonormal"
      [] projection = "biorth" -> "biorthogonal"

\* the projection method is applied to the matrices
ReduceMethod ==
    /\ pc = "method"
    /\ LET f == method_form(args.projection)
           bp == IF args.projection = "biorth" THEN "M" ELSE None
       IN  self' = IF self.cls = "SOBTReductor"
                   THEN [self EXCEPT !.V1 = Array(args.r, f),
                                     !.W1 = Array(args.r, f),
                                     !.V2 = Array(args.r, f),
                                     !.W2 = Array(args.r, f)]
                   ELSE IF self.cls = "SOBTfvReductor"
                   THEN [self EXCEPT !.V = Array(args.r, f),
                                     !.W = Array(args.r, f),
                                     !.biorthogonal_product = bp]
                   ELSE [self EXCEPT !.V = Array(args.r, f),
                                     !.W = Array(args.r, f),
                                     !.biorthogonal_product = bp]
    /\ pc' = "project_operators"
    /\ UNCHANGED <<args, exception, result, heap, lradi_vars>>

\* the operators are projected and the reduced system of order r is returned
ReduceReturn ==
    /\ pc = "project_operators"
    /\ result' = <<[kind |-> "SecondOrderSystem", n |-> args.r]>>
    /\ pc' = "returned"
    /\ UNCHANGED <<args, exception, self, heap, lradi_vars>>

NextSOBT ==
    \/ ReduceCheckArgs
    \/ ReduceCheckGramians
    \/ ReduceProject
    \/ ReduceMethod
    \/ ReduceReturn

SpecSOBT == InitSOBT /\ [][NextSOBT]_vars


\* ----------------------------------------------- pymor.bindings.pymess
\* if A.source.dim >= 1000, line 83
DenseLimit == 1000

MESS_OP_NONE == "MESS_OP_NONE"

MESS_OP_TRANSPOSE == "MESS_OP_TRANSPOSE"

\* the solver types of lyap_solver_options
PymessTypes == {"pymess", "pymess_lyap", "pymess_lradi"}

\* the dimensions of A.source tried, on both sides of the limit
PymessDims == {1, DenseLimit - 1, DenseLimit, DenseLimit + 1}

\* a pymess.Options object: its type field
PymessOptions == [type : {MESS_OP_NONE, MESS_OP_TRANSPOSE}]

\* an options dictionary: its 'type' entry and the object its 'opts' entry
\* refers to
OptionDicts == [type : PymessTypes, opts : {"opts"}]

\* the solver type 'pymess' stands for
resolve_type(dim) ==
    IF dim >= DenseLimit THEN "pymess_lradi" ELSE "pymess_lyap"

\* opts.type as set for the value of trans
op_type(trans) == IF trans THEN MESS_OP_TRANSPOSE ELSE MESS_OP_NONE

\* solve_lyap(A, E, B, trans, options) is called with an options dictionary
\* of the caller; args.options records dictionary and Options object as they
\* are at the call
InitPymess ==
    /\ \E dim \in PymessDims, trans \in BOOLEAN, d \in OptionDicts,
          o \in PymessOptions :
         \E E \in {NoneValue, IdentityOperator(dim)} :
           /\ args = [A |-> IdentityOperator(dim), E |-> E,
                      B |-> IdentityOperator(dim), trans |-> trans,
                      options |-> [dict |-> d, opts |-> o]]
           /\ heap = [dict |-> d, opts |-> o]
    /\ options = NoOptions
    /\ pc = "pymess_solve_lyap"
    /\ self = NoReductor
    /\ Untouched

\* line 79: _solve_lyap_check_args returns or raises
PymessCheckArgs ==
    /\ pc = "pymess_solve_lyap"
    /\ \E ok \in BOOLEAN :
         IF ok THEN pc' = "parse_options" /\ UNCHANGED exception
         ELSE Raise("AssertionError")
    /\ UNCHANGED <<args, result, self, heap, lradi_vars>>

\* line 80: options is bound to the caller's dictionary itself or to a new
\* dictionary with the same entries
PymessParseOptions ==
    /\ pc = "parse_options"
    /\ \E same \in BOOLEAN :
         options' = [original |-> same, type |-> heap.dict.type,
                     opts |-> heap.dict.opts]
    /\ pc' = "resolve"
    /\ UNCHANGED <<args, exception, result, self, heap, Z, W, j, shifts,
                   size_shift, res, init_res, Btol, init_log, upd, calls, log>>

\* lines 82-86: 'pymess' is resolved in a copy made by dict(options, type=...)
PymessResolve ==
    /\ pc = "resolve"
    /\ options' = IF options.type = "pymess"
                  THEN [original |-> FALSE,
                        type |-> resolve_type(args.A.source),
                        opts |-> options.opts]
                  ELSE options
    /\ pc' = "solve"
    /\ UNCHANGED <<args, exception, result, self, heap, Z, W, j, shifts,
                   size_shift, res, init_res, Btol, init_log, upd, calls, log>>

\* lines 88-101: the dense solver pymess.lyap
PymessLyap ==
    /\ pc = "solve"
    /\ options.type = "pymess_lyap"
    /\ result' = <<[solver |-> "lyap", trans |-> args.trans]>>
    /\ pc' = "from_numpy"
    /\ UNCHANGED <<args, exception, self, heap, lradi_vars>>

\* lines 102-109: opts = options['opts'], opts.type is set, pymess.lradi runs
PymessLradi ==
    /\ pc = "solve"
    /\ options.type = "pymess_lradi"
    /\ heap' = [heap EXCEPT ![options.opts].type = op_type(args.trans)]
    /\ result' = <<[solver |-> "lradi", trans |-> args.trans]>>
    /\ pc' = "from_numpy"
    /\ UNCHANGED <<args, exception, self, lradi_vars>>

\* lines 111-113: Z is converted and returned
PymessReturn ==
    /\ pc = "from_numpy"
    /\ pc' = "returned"
    /\ UNCHANGED <<args, exception, result, self, heap, lradi_vars>>

NextPymess ==
    \/ PymessCheckArgs
    \/ PymessParseOptions
    \/ PymessResolve
    \/ PymessLyap
    \/ PymessLradi
    \/ PymessReturn

SpecPymess == InitPymess /\ [][NextPymess]_vars

\* ------------------------------------------------------------------ claims
InLoop == pc \in {"while", "returned"}

IsPrefix(s, t) == Len(s) <= Len(t) /\ SubSeq(t, 1, Len(s)) = s

\* C1: lradi returns only when res <= tol * init_res or j >= maxiter; while
\* res > Btol and j < maxiter the loop makes another ADI step (a solve with
\* the shifted operator); Btol = tol * init_res is set once before the first
\* step and never changes afterwards.
C1_TerminalCondition ==
    /\ [](pc = "returned"
          => \/ res * options.tol.den <= options.tol.num * init_res
             \/ j >= options.maxiter)
    /\ [](InLoop => Btol = [num |-> options.tol.num * init_res,
                            den |-> options.tol.den])
    /\ [][pc = "while" => Btol' = Btol /\ init_res' = init_res]_vars
    /\ [][pc = "while" /\ res * Btol.den > Btol.num /\ j < options.maxiter
          => /\ pc' # "returned"
             /\ calls'[inverse_method] = calls[inverse_method] + 1]_vars

\* lradi returned after at least one step, within budget, the tolerance met
C1_Witness ==
    /\ pc = "returned"
    /\ j >= 1
    /\ j < options.maxiter
    /\ init_res > 0
    /\ options.tol.num > 0
    /\ res < init_res
    /\ res * Btol.den <= Btol.num

\* C2: with r = len(W0), len(Z) = j * r before every step and at return; a
\* real-shift step appends r columns and advances j by 1, a complex-shift
\* step appends 2r columns and advances j by 2; columns already in Z are
\* neither removed nor rewritten.
C2_ColumnCount ==
    /\ [](InLoop => Len(Z) = j * W0(args.B, args.trans))
    /\ [][pc = "while" /\ (Z' # Z \/ j' # j)
          => /\ IsPrefix(Z, Z')
             /\ IF shifts[j + 1].im = 0
                THEN /\ Len(Z') = Len(Z) + W0(args.B, args.trans)
                     /\ j' = j + 1
                ELSE /\ Len(Z') = Len(Z) + 2 * W0(args.B, args.trans)
                     /\ j' = j + 2]_vars
    /\ [][pc = "while" => IsPrefix(Z, Z')]_vars

\* lradi returned after a real step and a complex step with r = 2
C2_Witness ==
    /\ pc = "returned"
    /\ W = 2
    /\ \E c \in 1..Len(Z) : Z[c].part = "real"
    /\ \E c \in 1..Len(Z) : Z[c].part = "im"
    /\ Len(result) = 6

\* C3: every entry of every shift set the driver holds has strictly
\* negative real part, hence so has every shift consumed by an ADI step.
C3_StableShifts ==
    /\ \A k \in 1..Len(shifts) : shifts[k].re < 0
    /\ upd.called => \A k \in 1..Len(upd.found) : upd.found[k].re < 0

\* the shift set holds initial shifts, fresh shifts and a duplicated batch
C3_Witness ==
    /\ pc = "while"
    /\ upd.called
    /\ upd.found = <<>>
    /\ Len(upd.prev_shifts) >= 3
    /\ Len(shifts) = 2 * Len(upd.prev_shifts)
    /\ \E k \in 1..Len(shifts) : shifts[k].im # 0
\* a call of projection_shifts is made in this step
UpdaterCalled == calls'["iteration_shifts"] = calls["iteration_shifts"] + 1

\* C4: a call of projection_shifts with nonempty prev_shifts that returns,
\* returns a sequence with prev_shifts as exact prefix which is strictly
\* longer than prev_shifts; across one lradi run the shift set only grows.
C4_ShiftsOnlyGrow ==
    /\ [][UpdaterCalled /\ shifts # <<>> /\ pc' # "raised"
          => /\ IsPrefix(shifts, shifts')
             /\ Len(shifts') > Len(shifts)
             /\ size_shift' = Len(shifts')]_vars
    /\ [][shifts # <<>>
          => /\ IsPrefix(shifts, shifts')
             /\ (shifts' # shifts => Len(shifts') > Len(shifts))]_vars

\* the updater returned fresh shifts behind the previous ones
C4_Witness ==
    /\ pc = "while"
    /\ upd.called
    /\ upd.found # <<>>
    /\ upd.found # upd.prev_shifts
    /\ Len(upd.prev_shifts) >= 2
    /\ shifts = upd.prev_shifts \o upd.found

\* C5: when the projected pencil of projection_shifts has no eigenvalue with
\* negative real part, the call raises nothing and returns prev_shifts
\* followed by a second copy of prev_shifts (length 2L); lradi goes on with
\* that sequence.
C5_DuplicationFallback ==
    /\ [][UpdaterCalled /\ upd'.project.exc = None /\ upd'.found = <<>>
          => /\ pc' = "while"
             /\ exception' = None
             /\ shifts' = shifts \o shifts
             /\ size_shift' = 2 * Len(shifts)]_vars
    /\ [](upd.called /\ upd.project.exc = None /\ upd.found = <<>>
          => /\ shifts = upd.prev_shifts \o upd.prev_shifts
             /\ Len(shifts) = 2 * Len(upd.prev_shifts))

\* the loop goes on with a duplicated shift set and takes a shift of the copy
C5_Witness ==
    /\ pc = "while"
    /\ upd.called
    /\ upd.project.exc = None
    /\ upd.found = <<>>
    /\ Len(upd.prev_shifts) = 2
    /\ j > upd.j
    /\ shifts = upd.prev_shifts \o upd.prev_shifts

\* C6: if no attempt yields an eigenvalue with negative real part,
\* projection_shifts_init makes exactly init_maxiter attempts and then raises
\* RuntimeError; it never returns an empty shift set (init_maxiter >= 0).
C6_InitExhaustion ==
    /\ exception = "RuntimeError"
       => /\ pc = "raised"
          /\ Len(init_log) = shift_options.init_maxiter
          /\ calls["eigvals"] = shift_options.init_maxiter
          /\ shifts = <<>>
    /\ pc = "init_shifts"
       => /\ Len(init_log) <= shift_options.init_maxiter
          /\ calls["eigvals"] = Len(init_log)
          /\ shifts = <<>>
    /\ pc \in {"init_res", "while", "returned"} => shifts # <<>>

\* the initializer gave up after two fruitless attempts
C6_Witness ==
    /\ exception = "RuntimeError"
    /\ shift_options.init_maxiter = 2
    /\ init_log = <<"W", "random">>

\* C7: when the loop ends with j >= maxiter and res > Btol, lradi raises
\* nothing and returns the Z accumulated so far; the warning is emitted if
\* and only if res > Btol at loop exit.
C7_NonConvergence ==
    /\ [][pc = "while" /\ j >= options.maxiter /\ res * Btol.den > Btol.num
          => /\ pc' = "returned"
             /\ exception' = None
             /\ result' = Z
             /\ Z' = Z
             /\ NotAchieved \in log']_vars
    /\ [](pc = "returned"
          => /\ result = Z
             /\ exception = None
             /\ (NotAchieved \in log <=> res * Btol.den > Btol.num))
    /\ [](pc # "returned" => log = {})

\* the budget ran out above the tolerance: Z is returned with the warning
C7_Witness ==
    /\ pc = "returned"
    /\ j >= options.maxiter
    /\ j > 0
    /\ res * Btol.den > Btol.num
    /\ NotAchieved \in log
    /\ Len(result) = j * W

\* the combinations solve_lyap accepts according to C8
C8_Accepted ==
    LET A == args.A
        E == args.E
        B == args.B
    IN  /\ A.kind = "operator" /\ B.kind = "operator"
        /\ A.linear /\ B.linear
        /\ A.source = A.range
        /\ (~args.trans => B.range = A.source)
        /\ (args.trans => B.source = A.source)
        /\ E.kind # "None"
           => /\ E.kind = "operator"
              /\ E.linear
              /\ E.source = A.source
              /\ E.range = A.source

\* C8: solve_lyap accepts (A, E, B, trans) exactly when A and B are linear
\* operators, A is square, B matches A's space on the side trans selects and
\* E is None or a linear operator on A's space; otherwise it fails in
\* _solve_lyap_check_args before options are parsed and lradi is entered.
C8_CheckArgs ==
    /\ pc # "solve_lyap" => (C8_Accepted <=> exception # "AssertionError")
    /\ exception = "AssertionError"
       => /\ pc = "raised"
          /\ options = NoOptions
          /\ calls = NoCalls
          /\ shifts = <<>>
          /\ init_log = <<>>

\* rejected although A and B fit: trans is set and only B's range is A's space
C8_Witness ==
    /\ exception = "AssertionError"
    /\ args.trans
    /\ args.A.kind = "operator" /\ args.A.linear
    /\ args.A.source = args.A.range
    /\ args.B.kind = "operator" /\ args.B.linear
    /\ args.B.range = args.A.source
    /\ args.B.source # args.A.source
    /\ args.E = NoneValue

\* the options select a shift strategy other than 'projection_shifts'
C9_OtherStrategy ==
    /\ options # NoOptions
    /\ options.type = "lradi"
    /\ \/ options.shifts \notin DOMAIN options.shift_options
       \/ options.shift_options[options.shifts].type # "projection_shifts"

\* C9: with a shift strategy other than 'projection_shifts', lradi aborts
\* with an exception before the initializer is called, before Z and W are
\* created and before any operator is applied or inverted.
C9_UnknownStrategy ==
    C9_OtherStrategy
    => /\ pc \in {"lradi", "raised"}
       /\ pc = "raised" => exception \in {"KeyError", "ValueError"}
       /\ calls = NoCalls
       /\ init_log = <<>>
       /\ shifts = <<>>
       /\ W = 0
       /\ Z = <<>>

\* lradi raised ValueError for an unknown type of the selected shift options
C9_Witness ==
    /\ pc = "raised"
    /\ exception = "ValueError"
    /\ options # NoOptions
    /\ options.type = "lradi"
    /\ options.shifts = "projection_shifts"
    /\ options.shift_options.projection_shifts.type = "unknown"

\* C10: a failure of apply_inverse / apply_inverse_adjoint during an ADI step
\* leaves lradi as an exception: no retry, no further solve, no call of the
\* updater, and Z is not returned.
C10_SolveFailurePropagates ==
    /\ [](calls["inversion_errors"] > 0
          => /\ pc = "raised"
             /\ exception = "InversionError"
             /\ calls["inversion_errors"] = 1
             /\ result = <<>>)
    /\ [][calls'["inversion_errors"] # calls["inversion_errors"]
          => /\ calls'[inverse_method] = calls[inverse_method] + 1
             /\ calls'["iteration_shifts"] = calls["iteration_shifts"]
             /\ UNCHANGED <<Z, j, shifts, size_shift, upd, result>>]_vars
    /\ [][calls["inversion_errors"] = 0]_vars

\* the solve of the third step failed, after an update of the shifts
C10_Witness ==
    /\ exception = "InversionError"
    /\ calls["inversion_errors"] = 1
    /\ j = 2
    /\ upd.called
    /\ calls[inverse_method] = 3
\* C11: maxiter is a hard cap: j <= maxiter in every state of lradi, and Z
\* never holds more than the r * maxiter columns reserved at its creation.
C11_HardCap ==
    pc \in {"init_shifts", "init_res", "while", "returned", "raised"}
    => /\ j <= options.maxiter
       /\ Len(Z) <= Z_reserve(args.B, args.trans, options.maxiter)
\* C12: provided every operator and shift-generator call returns, lradi
\* terminates: each pass of the loop increases j by 1 or 2 and the loop body
\* runs at most maxiter times before lradi returns Z.
C12_Terminates ==
    /\ <>(pc \in {"returned", "raised"})
    /\ [](calls[inverse_method] <= options.maxiter)
    /\ [][pc = "while" /\ pc' = "while" => j' \in {j + 1, j + 2}]_vars
    /\ [](pc = "returned" => result = Z)

\* the loop body ran maxiter times and lradi returned above the tolerance
C12_Witness ==
    /\ pc = "returned"
    /\ options.maxiter = 3
    /\ calls[inverse_method] = 3
    /\ res * Btol.den > Btol.num
\* an ADI step has been completed in this step
StepDone == j' # j

\* C13: after an ADI step lradi calls the updater if and only if j >= the
\* length of the shift set, at most once per step, and takes over the
\* strictly longer result before the next read of shifts[j]; the updater is
\* never called while unconsumed shifts remain.
C13_UpdateWhenExhausted ==
    /\ [][StepDone => (UpdaterCalled <=> j' >= Len(shifts))]_vars
    /\ [][calls'["iteration_shifts"] \in {calls["iteration_shifts"],
                                        calls["iteration_shifts"] + 1}]_vars
    /\ [][UpdaterCalled => StepDone /\ j' >= Len(shifts)]_vars
    /\ [][UpdaterCalled /\ pc' = "while"
          => /\ Len(shifts') > Len(shifts)
             /\ upd'.prev_shifts = shifts
             /\ size_shift' = Len(shifts')
             /\ j' < Len(shifts')]_vars
    /\ [](pc = "while" => size_shift = Len(shifts))

\* a step that left shifts unconsumed followed a step that called the updater
C13_Witness ==
    /\ pc = "while"
    /\ upd.called
    /\ calls["iteration_shifts"] = 1
    /\ j = upd.j + 1
    /\ j < Len(shifts)
    /\ Len(shifts) >= 4

\* C14: every read of shifts[j] in the loop is in bounds, and at every call
\* of the updater j = len(prev_shifts), so that Z holds len(prev_shifts) * r
\* columns at that call; also after the duplication fallback.
C14_ReadsInBounds ==
    /\ [](pc = "while" => 0 <= j /\ j < Len(shifts))
    /\ [][StepDone => 0 <= j /\ j < Len(shifts)]_vars
    /\ [](upd.called
          => /\ upd.j = Len(upd.prev_shifts)
             /\ upd.lenZ = Len(upd.prev_shifts) * W)

\* the updater was called at the end of a duplicated batch ending in a pair
C14_Witness ==
    /\ upd.called
    /\ calls["iteration_shifts"] = 2
    /\ Len(upd.prev_shifts) = 4
    /\ upd.prev_shifts[4].im < 0
    /\ upd.prev_shifts[1] = upd.prev_shifts[3]
    /\ upd.lenZ = 4 * W
\* C15: u is z_columns clipped to L = len(prev_shifts), increased by one when
\* the window would begin at the second member of a conjugate pair; the
\* window of the last u shifts (those of the last u * r columns of Z) never
\* splits a pair and begins at a real shift or at the first member of a pair.
C15_WindowKeepsPairs ==
    upd.called
    => LET prev == upd.prev_shifts
           L == Len(prev)
           clip == Min(shift_options.z_columns, L)
           u == upd.project.u
       IN  /\ u = clip + (IF prev[L - clip + 1].im < 0 THEN 1 ELSE 0)
           /\ 1 <= u /\ u <= L
           /\ prev[L - u + 1].im >= 0
           /\ \A k \in (L - u + 1)..L :
                /\ prev[k].im < 0
                   => k - 1 >= L - u + 1 /\ prev[k - 1] = Conj(prev[k])
                /\ prev[k].im > 0 => k + 1 <= L /\ prev[k + 1] = Conj(prev[k])
           /\ len_Vu(upd.lenZ, u, W) = u * W

\* the updater enlarged its window by one to keep a pair together
C15_Witness ==
    /\ upd.called
    /\ upd.project.u = shift_options.z_columns + 1
    /\ upd.project.u < Len(upd.prev_shifts)
    /\ upd.prev_shifts[Len(upd.prev_shifts) - upd.project.u + 1].im > 0

\* C16: in the implicit-subspace branch every read prev_shifts[d + i] is in
\* bounds, every 2x2 block lies inside the u x u matrix, and the indices
\* d..d+u-1 visited are exactly the shifts of the window whose columns form Vu.
C16_FillInsideWindow ==
    upd.called /\ shift_options.implicit_subspace
    => LET L == Len(upd.prev_shifts)
           u == upd.project.u
           d == upd.project.d
           visited == upd.project.visited
       IN  /\ upd.project.exc = None
           /\ d + u = L
           /\ \A k \in 1..Len(visited) :
                /\ L - u <= visited[k] /\ visited[k] < L
                /\ PyAt(upd.prev_shifts, visited[k]).im >= 0

\* every entry k of s with nonzero imaginary part is next to its conjugate,
\* the member with positive imaginary part first
PairsAdjacent(s) ==
    \A k \in 1..Len(s) :
      /\ s[k].im > 0 => k < Len(s) /\ s[k + 1] = Conj(s[k])
      /\ s[k].im < 0 => k > 1 /\ s[k - 1] = Conj(s[k])

\* C17 as stated: a conjugate pair is one entry with positive imaginary part
\* of the shift set, and the complex branch is taken at that entry.
C17_OneEntryPerPair ==
    /\ \A k \in 1..Len(shifts) : shifts[k].im >= 0
    /\ pc = "while" /\ InRange(shifts, j) => PyAt(shifts, j).im >= 0

\* C17: in every shift set lradi holds a conjugate pair occupies two adjacent
\* entries, the member with positive imaginary part first; the complex branch
\* is only taken at that member, advances j by 2 past the conjugate, and no
\* ADI step is made for the conjugate.
C17_PairsConsumedAsUnit ==
    /\ [](PairsAdjacent(shifts))
    /\ [](pc = "while" /\ InRange(shifts, j) => PyAt(shifts, j).im >= 0)
    /\ [][StepDone
          => /\ PyAt(shifts, j).im >= 0
             /\ PyAt(shifts, j).im > 0
                => /\ j' = j + 2
                   /\ PyAt(shifts, j + 1) = Conj(PyAt(shifts, j))
                   /\ Len(Z') = Len(Z) + 2 * W
             /\ PyAt(shifts, j).im = 0
                => j' = j + 1 /\ Len(Z') = Len(Z) + W]_vars
    /\ [](\A c \in 1..Len(Z) :
            /\ PyAt(shifts, Z[c].shift).im >= 0
            /\ Z[c].part = "real" <=> PyAt(shifts, Z[c].shift).im = 0)

\* lradi returned after one complex step that consumed a whole pair
C17_Witness ==
    /\ pc = "returned"
    /\ j = 2
    /\ Len(Z) = 2 * W
    /\ shifts[1].im > 0
    /\ shifts[2] = Conj(shifts[1])

\* C18: with trans false the solve only uses apply / apply_inverse and W0 is
\* B's range array, with trans true only apply_adjoint /
\* apply_inverse_adjoint and W0 is B's source array; shift generation
\* included, the two variants are never mixed.
C18_OneVariant ==
    /\ args.trans
       => /\ calls["apply"] = 0
          /\ calls["apply_inverse"] = 0
          /\ calls["as_range_array"] = 0
    /\ ~args.trans
       => /\ calls["apply_adjoint"] = 0
          /\ calls["apply_inverse_adjoint"] = 0
          /\ calls["as_source_array"] = 0

\* C19 as stated: after the first attempt on W up to init_maxiter retries on
\* random arrays are made before projection_shifts_init gives up.
C19_RetriesUpToInitMaxiter ==
    exception = "RuntimeError"
    => /\ init_log # <<>>
       /\ init_log[1] = "W"
       /\ Len(init_log) - 1 = shift_options.init_maxiter

\* C19: projection_shifts_init makes at most init_maxiter attempts in all
\* (none when init_maxiter = 0): the first on the orthonormalized W, each
\* later one on a fresh random array of len(W) vectors; it returns the
\* nonempty stable eigenvalues of the first attempt that has any and makes no
\* attempt after that.
C19_InitAttempts ==
    /\ [](shift_strategy_error(options) = None
          => /\ Len(init_log) <= shift_options.init_maxiter
             /\ \A k \in 1..Len(init_log) :
                  init_log[k] = IF k = 1 THEN "W" ELSE "random")
    /\ [](exception = "RuntimeError"
          => Len(init_log) = shift_options.init_maxiter)
    /\ [][pc = "init_shifts" /\ pc' = "init_shifts" => shifts' = <<>>]_vars
    /\ [][pc = "init_shifts" /\ pc' = "init_res"
          => /\ Len(init_log') = Len(init_log) + 1
             /\ shifts' # <<>>
             /\ Len(shifts') <= W
             /\ \A k \in 1..Len(shifts') : shifts'[k].re < 0]_vars
    /\ [][pc \notin {"lradi", "init_shifts"} => init_log' = init_log]_vars

\* the second attempt, made on a random array, gave the initial shifts
C19_Witness ==
    /\ pc = "init_res"
    /\ init_log = <<"W", "random">>
    /\ shifts # <<>>
\* reduce has passed the comparison of r with the sizes of the Gramian factors
PastSizeCheck == pc \in {"project", "method", "project_operators", "returned"}

\* C20: reduce(r, projection) raises ValueError unless r is smaller than the
\* size of every Gramian factor it uses, and raises it before any projection
\* matrix (V, W, V1, W1, V2, W2) of the reductor is assigned.
C20_RSmallerThanFactors ==
    /\ PastSizeCheck
       => \A k \in gramians(self.cls) : args.r < self.d.gramian[k]
    /\ exception = "ValueError"
       => /\ \E k \in gramians(self.cls) : ~(args.r < self.d.gramian[k])
          /\ \A m \in {"V", "W", "V1", "W1", "V2", "W2"} : self[m] = NoneValue
\* C21: the pymess solve_lyap resolves type 'pymess' to 'pymess_lradi' when
\* A.source.dim >= 1000 and to 'pymess_lyap' otherwise, and after the call
\* the caller's options are as before: the 'type' entry of the dictionary and
\* the 'opts' object it holds, for both values of trans.
C21_OptionsUntouched ==
    pc = "returned"
    => /\ options.type = IF args.options.dict.type = "pymess"
                         THEN resolve_type(args.A.source)
                         ELSE args.options.dict.type
       /\ result[1].solver = IF options.type = "pymess_lradi" THEN "lradi"
                             ELSE "lyap"
       /\ heap.dict = args.options.dict
       /\ heap.opts = args.options.opts
====
